---- MODULE Spec2Model ----
(***************************************************************************)
(* Model of Framework/backtester.py: Backtester.run, _open_trade_from_row  *)
(* and _close_trade.                                                       *)
(*                                                                         *)
(* Numbers.  Python floats are modelled by exact fixed-point integers:     *)
(*   - bar prices, stop_price, take_price, trailing_distance, size and     *)
(*     risk are integers (price units);                                    *)
(*   - slippage and commission_perc are numerators over Den                *)
(*     (slippage = 1 means 1/Den);                                         *)
(*   - entry_price and exit_price (prices after slippage), max_favor and   *)
(*     max_adverse are in units of 1/Den;                                  *)
(*   - commission_open, commission_close and pnl are in units of 1/Den^2.  *)
(* A nullable or float cell is a record [k, v]: None, NaN or Num(x).       *)
(*                                                                         *)
(* Errors.  An exception that leaves run (or __init__) is a final position  *)
(* of pc, named after the exception.                                       *)
(*                                                                         *)
(* Objects.  Python trade dicts are shared between the lists open_trades   *)
(* and closed_trades; the model keeps them in the heap "trades" and the    *)
(* lists hold references (indices into the heap).                          *)
(***************************************************************************)
EXTENDS Integers, Sequences, FiniteSets, TLC

\* ------------------------------------------------------------------ bounds
MaxBars == 3          \* rows of the merged frame "data"
Den == 10             \* fixed-point denominator of slippage and commission_perc
T0 == 100             \* datetime of the first bar; bar i has datetime T0 + i
MaxPriceRows == 2     \* rows of a price frame given explicitly (SpecMerge)
MaxSignalRows == 2    \* rows of a signals frame given explicitly (SpecMerge)

\* ------------------------------------------------------------------ cells
None == [k |-> "None", v |-> 0]
NaN == [k |-> "nan", v |-> 0]
Num(x) == [k |-> "num", v |-> x]
IsNum(a) == a.k = "num"
IsNone(a) == a.k = "None"
\* pd.isna / np.isnan: true of None and of NaN
isna(a) == a.k # "num"

\* float arithmetic: NaN is absorbing
FMul(a, b) == IF IsNum(a) /\ IsNum(b) THEN Num(a.v * b.v) ELSE NaN
FSub(a, b) == IF IsNum(a) /\ IsNum(b) THEN Num(a.v - b.v) ELSE NaN
Abs(x) == IF x < 0 THEN 0 - x ELSE x
\* Python's max(a, b) / min(a, b) with a a number: b replaces a only when
\* b > a (b < a), which is false of NaN
PyMax(a, b) == IF IsNum(b) /\ b.v > a THEN b.v ELSE a
PyMin(a, b) == IF IsNum(b) /\ b.v < a THEN b.v ELSE a

\* ------------------------------------------------------------------ inputs
\* (low, close, high) of a bar, low <= close <= high
BarShapes == {<<1, 3, 5>>, <<3, 3, 3>>, <<4, 4, 4>>}
Signals == {-1, 0, 1}
\* cells of a signal row, by the row's signal s: a protective stop and a
\* target on the other side of the price; NaN is a null cell
StopCells(s) == {NaN, Num(IF s > 0 THEN 2 ELSE 4)}
TakeCells(s) == {Num(IF s > 0 THEN 4 ELSE 2)}
TrailCells == {Num(1)}
SizeCells == {NaN, Num(2)}
RiskCells == {NaN, Num(1)}
\* <<single_position_mode, slippage, commission_perc>>, the last two
\* numerators over Den
Configs == {<<TRUE, 0, 0>>, <<TRUE, 1, 1>>, <<FALSE, 1, 1>>}
\* the columns of the signals frame besides datetime
ColumnSets ==
    { {},
      {"stop_price"},
      {"signal"},
      {"signal", "stop_price", "take_price"},
      {"signal", "stop_price", "trailing_distance"},
      {"signal", "size"},
      {"signal", "risk"} }

\* the columns run reads from the price frame
PriceColumns == {"datetime", "open", "high", "low", "close"}
\* the price frame has them all, or lacks one of them
PriceColumnSets == {PriceColumns} \cup {PriceColumns \ {c} : c \in PriceColumns}

VARIABLES
    single_position_mode,  \* self.single_position_mode
    commission_perc,       \* self.commission_perc (numerator over Den)
    slippage,              \* self.slippage (numerator over Den)
    columns,               \* the columns of the signals frame
    price_columns,         \* the columns of the price frame self.df
    frames_given,          \* self_df and sig hold the two frames (SpecMerge)
    self_df,               \* self.df, the rows of the price frame
    sig,                   \* the rows of the signals frame
    data,                  \* the merged frame, rows read so far
    pc,                    \* position in run, or the exception raised
    bar_index,             \* the loop's bar_index (-1 before the first bar)
    trades,                \* heap of trade dicts, in order of creation
    open_trades,           \* list of references into trades
    closed_trades,         \* list of references into trades
    trade_id,              \* run's counter trade_id
    trades_df,             \* the returned frame (rows), <<>> before return
    signals_empty,         \* signals is None or signals.empty
    run_no,                \* 1 in the first call of run, 2 in a second call
    first_df               \* the frame returned by the first call

vars == <<single_position_mode, commission_perc, slippage, columns,
          price_columns, frames_given, self_df, sig, data, pc,
          bar_index, trades, open_trades, closed_trades, trade_id, trades_df,
          signals_empty, run_no, first_df>>

config == <<single_position_mode, commission_perc, slippage, columns,
            price_columns, frames_given, self_df, sig, signals_empty>>

has_stop == "stop_price" \in columns
has_take == "take_price" \in columns
has_size == "size" \in columns
has_risk == "risk" \in columns
has_trail == "trailing_distance" \in columns

\* the row of the current loop iteration
row == data[bar_index + 1]

\* ------------------------------------------------------------------ _close_trade
dir_factor(direction) == IF direction = "long" THEN 1 ELSE -1

\* fault variant of CloseTrade: the commission paid at the open is not
\* deducted from pnl
CloseTrade_no_commission_open(trade, exit_price, exit_time, exit_bar_index, exit_reason) ==
    LET df == dir_factor(trade.direction)
        px == exit_price * (Den - df * slippage)
        commission_close == FMul(Num(commission_perc * px), trade.size)
        gross_pnl == FMul(FMul(Num(px - trade.entry_price), trade.size), Num(df))
        net_pnl == FSub(FMul(gross_pnl, Num(Den)), commission_close)
    IN [trade EXCEPT !.exit_time = Num(exit_time),
                     !.exit_bar_index = Num(exit_bar_index),
                     !.exit_price = Num(px),
                     !.commission_close = commission_close,
                     !.pnl = net_pnl,
                     !.exit_reason = exit_reason]

\* fault variant of CloseTrade: the slippage is applied with the sign of the
\* entry (line 304 with +), in the trader's favour
CloseTrade_entry_side_slippage(trade, exit_price, exit_time, exit_bar_index, exit_reason) ==
    LET df == dir_factor(trade.direction)
        px == exit_price * (Den + df * slippage)
        commission_close == FMul(Num(commission_perc * px), trade.size)
        gross_pnl == FMul(FMul(Num(px - trade.entry_price), trade.size), Num(df))
        net_pnl == FSub(FSub(FMul(gross_pnl, Num(Den)), trade.commission_open),
                        commission_close)
    IN [trade EXCEPT !.exit_time = Num(exit_time),
                     !.exit_bar_index = Num(exit_bar_index),
                     !.exit_price = Num(px),
                     !.commission_close = commission_close,
                     !.pnl = net_pnl,
                     !.exit_reason = exit_reason]

CloseTrade(trade, exit_price, exit_time, exit_bar_index, exit_reason) ==
    LET df == dir_factor(trade.direction)
        px == exit_price * (Den - df * slippage)
        commission_close == FMul(Num(commission_perc * px), trade.size)
        gross_pnl == FMul(FMul(Num(px - trade.entry_price), trade.size), Num(df))
        net_pnl == FSub(FSub(FMul(gross_pnl, Num(Den)), trade.commission_open),
                        commission_close)
    IN [trade EXCEPT !.exit_time = Num(exit_time),
                     !.exit_bar_index = Num(exit_bar_index),
                     !.exit_price = Num(px),
                     !.commission_close = commission_close,
                     !.pnl = net_pnl,
                     !.exit_reason = exit_reason]

\* ------------------------------------------------------------------ _open_trade_from_row
\* getattr(sig_row, name, None) if has_x else None, then "limpa None/nan"
Clean(has, cell) == IF has /\ ~isna(cell) THEN cell ELSE None

OpenTradeFromRow(tid, dt, price, sig_row, bidx) ==
    LET direction == IF sig_row.signal > 0 THEN "long" ELSE "short"
        size == IF has_size THEN sig_row.size ELSE Num(1)
        stop_price == Clean(has_stop, sig_row.stop_price)
        take_price == Clean(has_take, sig_row.take_price)
        trailing_distance == Clean(has_trail, sig_row.trailing_distance)
        risk0 == Clean(has_risk, sig_row.risk)
        risk == IF IsNone(risk0) /\ ~IsNone(stop_price)
                THEN FMul(Num(Abs(price - stop_price.v)), size)
                ELSE risk0
        entry_px == price * (Den + dir_factor(direction) * slippage)
        commission_open == FMul(Num(commission_perc * entry_px), size)
    IN [id |-> tid,
        direction |-> direction,
        entry_time |-> dt,
        entry_bar_index |-> bidx,
        entry_price |-> entry_px,
        size |-> size,
        stop_price |-> stop_price,
        take_price |-> take_price,
        trailing_distance |-> trailing_distance,
        risk |-> risk,
        max_favor |-> 0,
        max_adverse |-> 0,
        volume_at_entry |-> None,
        exit_time |-> None,
        exit_bar_index |-> None,
        exit_price |-> None,
        pnl |-> None,
        commission_open |-> commission_open,
        commission_close |-> Num(0),
        exit_reason |-> "None"]

\* ------------------------------------------------------------------ run, per open trade
Range(s) == {s[i] : i \in DOMAIN s}

\* fault variant of UpdateTrade: the trailing stop follows the close in both
\* directions (no max / min with the current stop)
UpdateTrade_no_ratchet(t, r) ==
    LET best_pnl == IF t.direction = "long"
                    THEN FMul(Num(r.high * Den - t.entry_price), t.size)
                    ELSE FMul(Num(t.entry_price - r.low * Den), t.size)
        worst_pnl == IF t.direction = "long"
                     THEN FMul(Num(r.low * Den - t.entry_price), t.size)
                     ELSE FMul(Num(t.entry_price - r.high * Den), t.size)
        new_stop == IF t.direction = "long"
                    THEN r.close - t.trailing_distance.v
                    ELSE r.close + t.trailing_distance.v
        stop == IF IsNone(t.trailing_distance) THEN t.stop_price ELSE Num(new_stop)
    IN [t EXCEPT !.max_favor = PyMax(t.max_favor, best_pnl),
                 !.max_adverse = PyMin(t.max_adverse, worst_pnl),
                 !.stop_price = stop]

\* fault variant of UpdateTrade: max_favor and max_adverse are the best and
\* worst excursion of the current bar (no max / min with the stored value)
UpdateTrade_last_excursion(t, r) ==
    LET best_pnl == IF t.direction = "long"
                    THEN FMul(Num(r.high * Den - t.entry_price), t.size)
                    ELSE FMul(Num(t.entry_price - r.low * Den), t.size)
        worst_pnl == IF t.direction = "long"
                     THEN FMul(Num(r.low * Den - t.entry_price), t.size)
                     ELSE FMul(Num(t.entry_price - r.high * Den), t.size)
        new_stop == IF t.direction = "long"
                    THEN r.close - t.trailing_distance.v
                    ELSE r.close + t.trailing_distance.v
        stop == IF IsNone(t.trailing_distance) THEN t.stop_price
                ELSE IF isna(t.stop_price) THEN Num(new_stop)
                ELSE IF t.direction = "long"
                     THEN Num(IF t.stop_price.v >= new_stop THEN t.stop_price.v ELSE new_stop)
                     ELSE Num(IF t.stop_price.v <= new_stop THEN t.stop_price.v ELSE new_stop)
    IN [t EXCEPT !.max_favor = IF IsNum(best_pnl) THEN best_pnl.v ELSE t.max_favor,
                 !.max_adverse = IF IsNum(worst_pnl) THEN worst_pnl.v ELSE t.max_adverse,
                 !.stop_price = stop]

\* fault variant of UpdateTrade: a trade without a trailing distance is
\* trailed with distance 0 (t.get("trailing_distance", 0) and no test)
UpdateTrade_default_distance(t, r) ==
    LET best_pnl == IF t.direction = "long"
                    THEN FMul(Num(r.high * Den - t.entry_price), t.size)
                    ELSE FMul(Num(t.entry_price - r.low * Den), t.size)
        worst_pnl == IF t.direction = "long"
                     THEN FMul(Num(r.low * Den - t.entry_price), t.size)
                     ELSE FMul(Num(t.entry_price - r.high * Den), t.size)
        dist == IF IsNone(t.trailing_distance) THEN 0 ELSE t.trailing_distance.v
        new_stop == IF t.direction = "long" THEN r.close - dist ELSE r.close + dist
        stop == IF isna(t.stop_price) THEN Num(new_stop)
                ELSE IF t.direction = "long"
                     THEN Num(IF t.stop_price.v >= new_stop THEN t.stop_price.v ELSE new_stop)
                     ELSE Num(IF t.stop_price.v <= new_stop THEN t.stop_price.v ELSE new_stop)
    IN [t EXCEPT !.max_favor = PyMax(t.max_favor, best_pnl),
                 !.max_adverse = PyMin(t.max_adverse, worst_pnl),
                 !.stop_price = stop]

\* lines 84-116: MFE / MAE, then the trailing stop
UpdateTrade(t, r) ==
    LET best_pnl == IF t.direction = "long"
                    THEN FMul(Num(r.high * Den - t.entry_price), t.size)
                    ELSE FMul(Num(t.entry_price - r.low * Den), t.size)
        worst_pnl == IF t.direction = "long"
                     THEN FMul(Num(r.low * Den - t.entry_price), t.size)
                     ELSE FMul(Num(t.entry_price - r.high * Den), t.size)
        new_stop == IF t.direction = "long"
                    THEN r.close - t.trailing_distance.v
                    ELSE r.close + t.trailing_distance.v
        stop == IF IsNone(t.trailing_distance) THEN t.stop_price
                ELSE IF isna(t.stop_price) THEN Num(new_stop)
                ELSE IF t.direction = "long"
                     THEN Num(IF t.stop_price.v >= new_stop THEN t.stop_price.v ELSE new_stop)
                     ELSE Num(IF t.stop_price.v <= new_stop THEN t.stop_price.v ELSE new_stop)
    IN [t EXCEPT !.max_favor = PyMax(t.max_favor, best_pnl),
                 !.max_adverse = PyMin(t.max_adverse, worst_pnl),
                 !.stop_price = stop]

\* fault variant of hit_sl: the stop is tested against the bar's close, not
\* its low / high
hit_sl_on_close(t, r) ==
    IF t.direction = "long"
    THEN ~isna(t.stop_price) /\ r.close <= t.stop_price.v
    ELSE ~isna(t.stop_price) /\ r.close >= t.stop_price.v

\* lines 119-134, on the trade as updated
hit_sl(t, r) ==
    IF t.direction = "long"
    THEN ~isna(t.stop_price) /\ r.low <= t.stop_price.v
    ELSE ~isna(t.stop_price) /\ r.high >= t.stop_price.v

hit_tp(t, r) ==
    IF t.direction = "long"
    THEN ~isna(t.take_price) /\ r.high >= t.take_price.v
    ELSE ~isna(t.take_price) /\ r.low <= t.take_price.v

\* fault variant of ExitReason: the target wins over the stop
ExitReason_target_first(t, r) ==
    IF hit_tp(t, r) THEN "tp" ELSE IF hit_sl(t, r) THEN "sl" ELSE "None"

\* lines 136-142: the stop wins over the target
ExitReason(t, r) ==
    IF hit_sl(t, r) THEN "sl" ELSE IF hit_tp(t, r) THEN "tp" ELSE "None"

\* fault variant of ExitPrice: the bar's extreme that crossed the level, not
\* the level
ExitPrice_bar_extreme(t, r) ==
    IF hit_sl(t, r)
    THEN (IF t.direction = "long" THEN r.low ELSE r.high)
    ELSE (IF t.direction = "long" THEN r.high ELSE r.low)

ExitPrice(t, r) ==
    IF hit_sl(t, r) THEN t.stop_price.v ELSE t.take_price.v

\* fault variant of ProcessTrade: a trade closed on its stop or target keeps
\* the excursions of the bar before (lines 88-97 moved into the else of line
\* 150)
ProcessTrade_no_excursion_on_exit(t, r, bidx) ==
    LET u == UpdateTrade(t, r)
        w == [u EXCEPT !.max_favor = t.max_favor, !.max_adverse = t.max_adverse]
    IN IF ExitReason(u, r) # "None"
       THEN CloseTrade(w, ExitPrice(u, r), r.datetime, bidx, ExitReason(u, r))
       ELSE u

\* fault variant of ProcessTrade: the stop / target test comes before the
\* trailing update and reads the stop price the trade had before this bar
ProcessTrade_hit_before_ratchet(t, r, bidx) ==
    LET u == UpdateTrade(t, r)
        v == [u EXCEPT !.stop_price = t.stop_price]
    IN IF ExitReason(t, r) # "None"
       THEN CloseTrade(v, ExitPrice(t, r), r.datetime, bidx, ExitReason(t, r))
       ELSE u

\* fault variant of ProcessTrade: in single-position mode a bar with a signal
\* leaves the trade to the close on the signal (the stop / target test is
\* skipped, as if step 2 were decided before step 1)
ProcessTrade_signal_first(t, r, bidx) ==
    LET u == UpdateTrade(t, r)
    IN IF ExitReason(u, r) # "None" /\ ~(single_position_mode /\ r.signal # 0)
       THEN CloseTrade(u, ExitPrice(u, r), r.datetime, bidx, ExitReason(u, r))
       ELSE u

\* lines 84-151 for one open trade
ProcessTrade(t, r, bidx) ==
    LET u == UpdateTrade(t, r)
    IN IF ExitReason(u, r) # "None"
       THEN CloseTrade(u, ExitPrice(u, r), r.datetime, bidx, ExitReason(u, r))
       ELSE u

\* ------------------------------------------------------------------ rows of data
\* A row of the merged frame.  A price timestamp without a signal row, and a
\* signal row with signal 0, carry NaN in every signals column; a column the
\* signals frame lacks is NaN too and is never read (has_x is false).
Cells(col, cells) == IF col \in columns THEN cells ELSE {NaN}

Rows(bidx) ==
    { [datetime |-> T0 + bidx, low |-> b[1], close |-> b[2], high |-> b[3],
       signal |-> 0, stop_price |-> NaN, take_price |-> NaN, size |-> NaN,
       risk |-> NaN, trailing_distance |-> NaN] : b \in BarShapes }
    \cup
    UNION { { [datetime |-> T0 + bidx, low |-> b[1], close |-> b[2], high |-> b[3],
               signal |-> s, stop_price |-> sp, take_price |-> tp, size |-> sz,
               risk |-> rk, trailing_distance |-> td] :
               b \in BarShapes,
               sp \in Cells("stop_price", StopCells(s)),
               tp \in Cells("take_price", TakeCells(s)),
               sz \in Cells("size", SizeCells),
               rk \in Cells("risk", RiskCells),
               td \in Cells("trailing_distance", TrailCells) } :
            s \in IF "signal" \in columns THEN Signals \ {0} ELSE {} }

\* ------------------------------------------------------------------ the merge
\* Frames given explicitly.  The price row of a timestamp has a shape of its
\* own, so that a merged row shows which price row it came from.
ShapeSeq == <<<<1, 3, 5>>, <<3, 3, 3>>, <<4, 4, 4>>>>
PriceRow(ts) ==
    LET b == ShapeSeq[((ts - T0) % 3) + 1]
    IN [datetime |-> ts, low |-> b[1], close |-> b[2], high |-> b[3]]
PriceTimes == T0 .. (T0 + MaxPriceRows - 1)
\* one timestamp of the signals frame is after every price timestamp
SignalTimes == T0 .. (T0 + MaxPriceRows)
PriceFrames ==
    UNION { [1 .. n -> {PriceRow(ts) : ts \in PriceTimes}] : n \in 0 .. MaxPriceRows }
\* the rows a signals frame with the columns cols can hold
SignalRows(cols) ==
    UNION { { [datetime |-> ts,
               signal |-> IF "signal" \in cols THEN Num(s) ELSE NaN,
               stop_price |-> NaN,
               take_price |-> tp,
               size |-> NaN, risk |-> NaN, trailing_distance |-> NaN] :
               ts \in SignalTimes,
               tp \in IF "take_price" \in cols THEN TakeCells(s) ELSE {NaN} } :
            s \in IF "signal" \in cols THEN Signals \ {0} ELSE {1} }
SignalFrames(cols) ==
    UNION { [1 .. n -> SignalRows(cols)] : n \in 0 .. MaxSignalRows }
MergeColumnSets == { {}, {"signal"}, {"signal", "take_price"} }

\* the cells a price row without a matching signals row gets
NoSignalRow ==
    [signal |-> NaN, stop_price |-> NaN, take_price |-> NaN, size |-> NaN,
     risk |-> NaN, trailing_distance |-> NaN]
\* lines 57-59: data["signal"] = 0 without the column, then fillna(0).astype(int)
SignalInt(cell) ==
    IF "signal" \notin columns THEN 0 ELSE IF isna(cell) THEN 0 ELSE cell.v
MergeRow(p, s) ==
    [datetime |-> p.datetime, low |-> p.low, close |-> p.close, high |-> p.high,
     signal |-> SignalInt(s.signal), stop_price |-> s.stop_price,
     take_price |-> s.take_price, size |-> s.size, risk |-> s.risk,
     trailing_distance |-> s.trailing_distance]
\* pd.merge(left, right, on="datetime", how="left"): the rows of left in
\* their order, each once per row of right with its datetime (in the order
\* of right), or once with null cells when right has none
RECURSIVE Merge(_, _)
Merge(left, right) ==
    IF left = <<>> THEN <<>>
    ELSE LET p == Head(left)
             m == SelectSeq(right, LAMBDA s : s.datetime = p.datetime)
         IN (IF m = <<>> THEN <<MergeRow(p, NoSignalRow)>>
             ELSE [j \in 1 .. Len(m) |-> MergeRow(p, m[j])])
            \o Merge(Tail(left), right)

\* ------------------------------------------------------------------ the aggregator
\* lines 209-232, one row of trades_df
NoRatio == [k |-> "nan", n |-> 0, d |-> 1]
\* fault variant of LedgerRow: the test of line 229 for a zero risk is
\* missing, and pnl is divided by 0
LedgerRow_no_zero_guard(t) ==
    LET risk == IF isna(t.risk) THEN NaN ELSE t.risk
    IN [trade |-> [t EXCEPT !.risk = risk],
        duration |-> FSub(t.exit_time, Num(t.entry_time)),
        bars_in_trade |-> FSub(t.exit_bar_index, Num(t.entry_bar_index)),
        result |-> IF IsNum(t.pnl) /\ t.pnl.v > 0 THEN "win"
                   ELSE IF IsNum(t.pnl) /\ t.pnl.v < 0 THEN "loss" ELSE "be",
        risk_reward |-> IF IsNum(risk) /\ IsNum(t.pnl)
                        THEN [k |-> "num", n |-> t.pnl.v, d |-> risk.v]
                        ELSE NoRatio]

LedgerRow(t) ==
    LET risk == IF isna(t.risk) THEN NaN ELSE t.risk
    IN [trade |-> [t EXCEPT !.risk = risk],
        duration |-> FSub(t.exit_time, Num(t.entry_time)),
        bars_in_trade |-> FSub(t.exit_bar_index, Num(t.entry_bar_index)),
        result |-> IF IsNum(t.pnl) /\ t.pnl.v > 0 THEN "win"
                   ELSE IF IsNum(t.pnl) /\ t.pnl.v < 0 THEN "loss" ELSE "be",
        risk_reward |-> IF IsNum(risk) /\ risk.v # 0 /\ IsNum(t.pnl)
                        THEN [k |-> "num", n |-> t.pnl.v, d |-> risk.v]
                        ELSE NoRatio]

\* ------------------------------------------------------------------ actions
Init ==
    /\ \E c \in Configs : /\ single_position_mode = c[1]
                          /\ slippage = c[2]
                          /\ commission_perc = c[3]
    /\ columns \in ColumnSets
    /\ price_columns \in PriceColumnSets
    /\ frames_given = FALSE
    /\ self_df = <<>>
    /\ sig = <<>>
    /\ signals_empty \in BOOLEAN
    /\ data = <<>>
    \* line 30: self.df["datetime"] raises KeyError without the column
    /\ pc = IF "datetime" \in price_columns THEN "start" ELSE "KeyError"
    /\ bar_index = -1
    /\ trades = <<>>
    /\ open_trades = <<>>
    /\ closed_trades = <<>>
    /\ trade_id = 0
    /\ trades_df = <<>>
    /\ run_no = 1
    /\ first_df = <<>>

\* fault variant of Start: the counter trade_id is kept from the earlier call
\* (line 69 missing, as if the counter lived on the object)
Start_keeps_trade_id ==
    /\ pc = "start"
    /\ IF signals_empty
       THEN /\ pc' = "done"
            /\ trades_df' = <<>>
            /\ UNCHANGED <<data, trades, open_trades, closed_trades, trade_id,
                           bar_index>>
       ELSE /\ pc' = "loop"
            /\ trades' = <<>>
            /\ open_trades' = <<>>
            /\ closed_trades' = <<>>
            /\ bar_index' = -1
            /\ data' = IF frames_given THEN Merge(self_df, sig) ELSE data
            /\ UNCHANGED <<trade_id, trades_df>>
    /\ UNCHANGED <<config, run_no, first_df>>

\* lines 42-69.  The merge is computed when the two frames are given; in
\* Spec the merged frame is revealed row by row instead.
Start ==
    /\ pc = "start"
    /\ IF signals_empty
       THEN /\ pc' = "done"
            /\ trades_df' = <<>>
            /\ UNCHANGED <<data, trades, open_trades, closed_trades, trade_id,
                           bar_index>>
       ELSE /\ pc' = "loop"
            /\ trades' = <<>>
            /\ open_trades' = <<>>
            /\ closed_trades' = <<>>
            /\ trade_id' = 0
            /\ bar_index' = -1
            /\ data' = IF frames_given THEN Merge(self_df, sig) ELSE data
            /\ UNCHANGED trades_df
    /\ UNCHANGED <<config, run_no, first_df>>

\* fault variant of UpdateOpenTrades: line 153 (open_trades = still_open) is
\* missing, a trade closed on its stop or target stays in open_trades
UpdateOpenTrades_no_still_open ==
    /\ pc = "loop"
    /\ PriceColumns \ {"datetime"} \subseteq price_columns
    /\ IF run_no = 1 /\ ~frames_given
       THEN /\ bar_index + 1 < MaxBars
            /\ \E r \in Rows(bar_index + 1) : data' = Append(data, r)
       ELSE /\ bar_index + 1 < Len(data)
            /\ UNCHANGED data
    /\ bar_index' = bar_index + 1
    /\ trades' = [i \in DOMAIN trades |->
                    IF i \in Range(open_trades)
                    THEN ProcessTrade(trades[i], row', bar_index')
                    ELSE trades[i]]
    /\ LET closes(i) == trades'[i].exit_reason # "None"
       IN closed_trades' = closed_trades \o SelectSeq(open_trades, closes)
    /\ pc' = "policy"
    /\ UNCHANGED <<config, open_trades, trade_id, trades_df, run_no, first_df>>

\* lines 74-153: the next row of data, then every open trade is updated
\* and closed on its stop or target.  In the first call of run the frame is
\* revealed row by row; a second call reads the same frame.  Line 76 reads
\* row.open, row.high, row.low and row.close.
UpdateOpenTrades ==
    /\ pc = "loop"
    /\ PriceColumns \ {"datetime"} \subseteq price_columns
    /\ IF run_no = 1 /\ ~frames_given
       THEN /\ bar_index + 1 < MaxBars
            /\ \E r \in Rows(bar_index + 1) : data' = Append(data, r)
       ELSE /\ bar_index + 1 < Len(data)
            /\ UNCHANGED data
    /\ bar_index' = bar_index + 1
    /\ trades' = [i \in DOMAIN trades |->
                    IF i \in Range(open_trades)
                    THEN ProcessTrade(trades[i], row', bar_index')
                    ELSE trades[i]]
    /\ LET closes(i) == trades'[i].exit_reason # "None"
       IN /\ closed_trades' = closed_trades \o SelectSeq(open_trades, closes)
          /\ open_trades' = SelectSeq(open_trades, LAMBDA i : ~closes(i))
    /\ pc' = "policy"
    /\ UNCHANGED <<config, trade_id, trades_df, run_no, first_df>>

\* lines 74-76 on the first row of data, the price frame lacking one of
\* open, high, low, close: the read of the attribute raises AttributeError
RowAttributeError ==
    /\ pc = "loop"
    /\ ~(PriceColumns \ {"datetime"} \subseteq price_columns)
    /\ IF run_no = 1 /\ ~frames_given
       THEN /\ bar_index + 1 < MaxBars
            /\ \E r \in Rows(bar_index + 1) : data' = Append(data, r)
       ELSE /\ bar_index + 1 < Len(data)
            /\ UNCHANGED data
    /\ bar_index' = bar_index + 1
    /\ pc' = "AttributeError"
    /\ UNCHANGED <<config, trades, open_trades, closed_trades, trade_id,
                   trades_df, run_no, first_df>>

\* fault variant of ClosesOnSignal: the test of single_position_mode is
\* missing, a signal closes what is open in hedge mode too
ClosesOnSignal_any_mode ==
    row.signal # 0 /\ Len(open_trades) > 0

\* fault variant of ClosesOnSignal: the test sigv != 0 is missing, a bar
\* without a signal closes what is open
ClosesOnSignal_any_bar ==
    single_position_mode /\ Len(open_trades) > 0

\* line 158
ClosesOnSignal ==
    single_position_mode /\ row.signal # 0 /\ Len(open_trades) > 0

\* fault variant of SignalClose: the bar's high, not its close, is the
\* exit price
SignalClose_at_high ==
    /\ pc = "policy"
    /\ ClosesOnSignal
    /\ trades' = [i \in DOMAIN trades |->
                    IF i \in Range(open_trades)
                    THEN CloseTrade(trades[i], row.high, row.datetime, bar_index, "signal")
                    ELSE trades[i]]
    /\ closed_trades' = closed_trades \o open_trades
    /\ open_trades' = <<>>
    /\ pc' = "open"
    /\ UNCHANGED <<config, data, bar_index, trade_id, trades_df, run_no, first_df>>

\* fault variant of SignalClose: line 164 (open_trades = []) is missing
SignalClose_keeps_open ==
    /\ pc = "policy"
    /\ ClosesOnSignal
    /\ trades' = [i \in DOMAIN trades |->
                    IF i \in Range(open_trades)
                    THEN CloseTrade(trades[i], row.close, row.datetime, bar_index, "signal")
                    ELSE trades[i]]
    /\ closed_trades' = closed_trades \o open_trades
    /\ pc' = "open"
    /\ UNCHANGED <<config, data, bar_index, open_trades, trade_id, trades_df,
                   run_no, first_df>>

\* lines 158-164
SignalClose ==
    /\ pc = "policy"
    /\ ClosesOnSignal
    /\ trades' = [i \in DOMAIN trades |->
                    IF i \in Range(open_trades)
                    THEN CloseTrade(trades[i], row.close, row.datetime, bar_index, "signal")
                    ELSE trades[i]]
    /\ closed_trades' = closed_trades \o open_trades
    /\ open_trades' = <<>>
    /\ pc' = "open"
    /\ UNCHANGED <<config, data, bar_index, trade_id, trades_df, run_no, first_df>>

\* fault variant of OpenTrade: the new trade gets the excursion and trailing
\* update of its entry bar (the open step placed before step 1)
OpenTrade_evaluated_on_entry ==
    IF row.signal = 0
    THEN UNCHANGED <<trades, open_trades, trade_id>>
    ELSE /\ trades' = Append(trades,
                 UpdateTrade(OpenTradeFromRow(trade_id, row.datetime, row.close, row,
                                              bar_index), row))
         /\ open_trades' = Append(open_trades, Len(trades) + 1)
         /\ trade_id' = trade_id + 1

\* fault variant of OpenTrade: the entry bar index is counted from 1, the
\* exit bar indices from 0
OpenTrade_one_based ==
    IF row.signal = 0
    THEN UNCHANGED <<trades, open_trades, trade_id>>
    ELSE /\ trades' = Append(trades,
                 OpenTradeFromRow(trade_id, row.datetime, row.close, row, bar_index + 1))
         /\ open_trades' = Append(open_trades, Len(trades) + 1)
         /\ trade_id' = trade_id + 1

\* fault variant of OpenTrade: trade_id += 1 (lines 173 / 190) is missing
OpenTrade_no_increment ==
    IF row.signal = 0
    THEN UNCHANGED <<trades, open_trades, trade_id>>
    ELSE /\ trades' = Append(trades,
                 OpenTradeFromRow(trade_id, row.datetime, row.close, row, bar_index))
         /\ open_trades' = Append(open_trades, Len(trades) + 1)
         /\ UNCHANGED trade_id

\* the call of _open_trade_from_row and lines 171-173 / 188-190;
\* _open_trade_from_row returns None when the signal is 0 (lines 243-245)
OpenTrade ==
    IF row.signal = 0
    THEN UNCHANGED <<trades, open_trades, trade_id>>
    ELSE /\ trades' = Append(trades,
                 OpenTradeFromRow(trade_id, row.datetime, row.close, row, bar_index))
         /\ open_trades' = Append(open_trades, Len(trades) + 1)
         /\ trade_id' = trade_id + 1

\* fault variant of OpenAfterSignalClose: lines 167-173 are missing, a signal
\* that closes the open trade opens nothing
OpenAfterSignalClose_no_open ==
    /\ pc = "open"
    /\ pc' = "loop"
    /\ UNCHANGED <<config, data, bar_index, trades, open_trades, trade_id,
                   closed_trades, trades_df, run_no, first_df>>

\* lines 166-173
OpenAfterSignalClose ==
    /\ pc = "open"
    /\ OpenTrade
    /\ pc' = "loop"
    /\ UNCHANGED <<config, data, bar_index, closed_trades, trades_df, run_no, first_df>>

\* lines 178-190
OpenElse ==
    /\ pc = "policy"
    /\ ~ClosesOnSignal
    /\ IF row.signal # 0 /\ ~(single_position_mode /\ Len(open_trades) > 0)
       THEN OpenTrade
       ELSE UNCHANGED <<trades, open_trades, trade_id>>
    /\ pc' = "loop"
    /\ UNCHANGED <<config, data, bar_index, closed_trades, trades_df, run_no, first_df>>

\* fault variant of last_idx: the length, not the last index
last_idx_is_len == Len(data)

\* line 199
last_idx == Len(data) - 1

\* fault variant of EodClosedTrades: line 204 (closed_trades.append) is missing
EodClosedTrades_no_append == closed_trades

\* lines 200-204: closed_trades after the loop over what is still open
EodClosedTrades == closed_trades \o open_trades

\* fault variant of EndOfData: the return of an empty frame when nothing was
\* closed (lines 206-207) is missing, and line 212 reads the column
\* exit_time of a frame without columns
EndOfData_no_empty_guard ==
    /\ pc = "loop"
    /\ bar_index + 1 = Len(data)
    /\ IF Len(open_trades) > 0
       THEN LET last_row == data[Len(data)]
            IN /\ trades' = [i \in DOMAIN trades |->
                     IF i \in Range(open_trades)
                     THEN CloseTrade(trades[i], last_row.close, last_row.datetime,
                                     last_idx, "eod")
                     ELSE trades[i]]
               /\ closed_trades' = EodClosedTrades
       ELSE UNCHANGED <<trades, closed_trades>>
    /\ trades_df' = [i \in DOMAIN closed_trades' |-> LedgerRow(trades'[closed_trades'[i]])]
    /\ pc' = IF closed_trades' = <<>> THEN "KeyError" ELSE "done"
    /\ UNCHANGED <<config, data, bar_index, open_trades, trade_id, run_no, first_df>>

\* lines 195-234, after the last row of data: what is still open is closed
\* ("eod"), and the ledger is returned
EndOfData ==
    /\ pc = "loop"
    /\ bar_index + 1 = Len(data)
    /\ IF Len(open_trades) > 0
       THEN LET last_row == data[Len(data)]
            IN /\ trades' = [i \in DOMAIN trades |->
                     IF i \in Range(open_trades)
                     THEN CloseTrade(trades[i], last_row.close, last_row.datetime,
                                     last_idx, "eod")
                     ELSE trades[i]]
               /\ closed_trades' = EodClosedTrades
       ELSE UNCHANGED <<trades, closed_trades>>
    /\ trades_df' = [i \in DOMAIN closed_trades' |-> LedgerRow(trades'[closed_trades'[i]])]
    /\ pc' = "done"
    /\ UNCHANGED <<config, data, bar_index, open_trades, trade_id, run_no, first_df>>

\* a second call of run on the same Backtester with the same signals
Rerun ==
    /\ pc = "done"
    /\ run_no = 1
    /\ run_no' = 2
    /\ first_df' = trades_df
    /\ pc' = "start"
    /\ UNCHANGED <<config, data, bar_index, trades, open_trades, closed_trades,
                   trade_id, trades_df>>

Next ==
    \/ Start
    \/ UpdateOpenTrades
    \/ RowAttributeError
    \/ SignalClose
    \/ OpenAfterSignalClose
    \/ OpenElse
    \/ EndOfData

Spec == Init /\ [][Next]_vars

NextRerun == Next \/ Rerun

\* two calls of run, on the frames whose trades carry the most state (a
\* stop that the trailing distance moves)
InitRerun ==
    /\ Init
    /\ columns = {"signal", "stop_price", "trailing_distance"}
    /\ ~signals_empty

SpecRerun == InitRerun /\ [][NextRerun]_vars

\* run on a price frame and a signals frame given explicitly
InitMerge ==
    /\ \E c \in Configs : /\ single_position_mode = c[1]
                          /\ slippage = c[2]
                          /\ commission_perc = c[3]
    /\ columns \in MergeColumnSets
    /\ price_columns = PriceColumns
    /\ frames_given = TRUE
    /\ self_df \in PriceFrames
    /\ sig \in SignalFrames(columns)
    /\ signals_empty = (sig = <<>>)
    /\ data = <<>>
    /\ pc = "start"
    /\ bar_index = -1
    /\ trades = <<>>
    /\ open_trades = <<>>
    /\ closed_trades = <<>>
    /\ trade_id = 0
    /\ trades_df = <<>>
    /\ run_no = 1
    /\ first_df = <<>>

NextMerge ==
    \/ Start
    \/ UpdateOpenTrades
    \/ SignalClose
    \/ OpenAfterSignalClose
    \/ OpenElse
    \/ EndOfData

SpecMerge == InitMerge /\ [][NextMerge]_vars

\* ================================================================== properties
Refs == DOMAIN trades
Occurrences(list, i) == Cardinality({j \in DOMAIN list : list[j] = i})
IsClosed(t) == t.exit_reason # "None"
\* the bar a trade was opened on / closed on
EntryBar(t) == data[t.entry_bar_index + 1]
ExitBar(t) == data[t.exit_bar_index.v + 1]
LastBar == data[Len(data)]
\* a price after exit slippage, in units of 1/Den: lower for a long, higher
\* for a short
AfterExitSlippage(direction, price) ==
    IF direction = "long" THEN price * (Den - slippage) ELSE price * (Den + slippage)

\* C1: with single_position_mode = true the list of open trades holds at most
\* one trade, at every point of run (after the stop/target update, after the
\* close on a signal and after the open step of every bar).
C1_SinglePosition ==
    single_position_mode => Len(open_trades) <= 1

\* a new trade was opened on the bar on which the previous one was closed on
\* a signal, and it is the only open one
C1_Witness ==
    /\ single_position_mode
    /\ pc = "loop"
    /\ Len(open_trades) = 1
    /\ \E i \in Refs : /\ trades[i].exit_reason = "signal"
                        /\ trades[i].exit_bar_index = Num(bar_index)
                        /\ trades[open_trades[1]].entry_bar_index = bar_index

\* C2: every trade ever opened is, at every moment of the run, either in the
\* open list or exactly once in the closed list, never both; when run has
\* finished every trade is closed and appears exactly once in the closed list
\* and in the returned ledger, and no trade is left open.
C2_EveryTradeClosedOnce ==
    /\ \A i \in Refs : Occurrences(closed_trades, i) <= 1
    /\ pc # "done" =>
          \A i \in Refs :
             /\ (Occurrences(open_trades, i) = 1) # (Occurrences(closed_trades, i) = 1)
             /\ Occurrences(open_trades, i) <= 1
             /\ IsClosed(trades[i]) <=> Occurrences(closed_trades, i) = 1
    /\ pc = "done" =>
          /\ \A i \in Refs : /\ Occurrences(closed_trades, i) = 1
                              /\ IsClosed(trades[i])
          /\ Len(trades_df) = Len(trades)
          /\ \A i \in Refs :
                Cardinality({j \in DOMAIN trades_df :
                                trades_df[j].trade.id = trades[i].id}) = 1

\* a finished run in which one trade was closed during the loop and another
\* by the end-of-data step
C2_Witness ==
    /\ pc = "done"
    /\ \E i, j \in Refs : /\ trades[i].exit_reason = "eod"
                           /\ trades[j].exit_reason \in {"sl", "tp", "signal"}

\* C3: a trade still open after the last bar is in the ledger with
\* exit_reason "eod", exit_bar_index the index of the last bar, exit_time the
\* last bar's timestamp and, before slippage, the last bar's close as its
\* exit price.  (open_trades is not changed by the end-of-data step, so at
\* "done" it lists exactly the trades that were still open.)
C3_ForcedClosure ==
    pc = "done" =>
       \A k \in DOMAIN open_trades :
          LET t == trades[open_trades[k]]
          IN /\ t.exit_reason = "eod"
             /\ t.exit_bar_index = Num(Len(data) - 1)
             /\ t.exit_time = Num(LastBar.datetime)
             /\ t.exit_price = Num(AfterExitSlippage(t.direction, LastBar.close))
             /\ \E j \in DOMAIN trades_df : trades_df[j].trade = [t EXCEPT !.risk =
                                                 IF isna(t.risk) THEN NaN ELSE t.risk]

\* a trade opened before the last bar is closed by the end-of-data step on a
\* last bar whose close differs from its low and high
C3_Witness ==
    /\ pc = "done"
    /\ \E k \in DOMAIN open_trades :
          /\ trades[open_trades[k]].entry_bar_index < Len(data) - 1
          /\ trades[open_trades[k]].exit_reason = "eod"
          /\ LastBar.low < LastBar.close
          /\ LastBar.close < LastBar.high
          /\ slippage > 0

\* the step of run that updates the open trades on the next bar (row')
UpdateStep == pc = "loop" /\ pc' = "policy"
\* the stop / target condition of a trade on a bar, with the stop and take
\* prices the trade carries
StopMet(t, r) ==
    /\ IsNum(t.stop_price)
    /\ IF t.direction = "long" THEN r.low <= t.stop_price.v ELSE r.high >= t.stop_price.v
TakeMet(t, r) ==
    /\ IsNum(t.take_price)
    /\ IF t.direction = "long" THEN r.high >= t.take_price.v ELSE r.low <= t.take_price.v

\* C4: when the bar on which an open trade (long or short) is updated
\* satisfies its stop condition and its target condition, the trade is
\* closed on that bar with exit_reason "sl" at its stop price (before
\* slippage), never "tp".
C4_StopPriority ==
    [][UpdateStep =>
         \A i \in Range(open_trades) :
            LET t == trades'[i]
            IN (StopMet(t, row') /\ TakeMet(t, row')) =>
                  /\ t.exit_reason = "sl"
                  /\ t.exit_bar_index = Num(bar_index')
                  /\ t.exit_price = Num(AfterExitSlippage(t.direction, t.stop_price.v))]_vars

\* a long and a short trade, each closed "sl" on a bar that met both its stop
\* and its target
C4_Witness ==
    \E i, j \in Refs :
       /\ trades[i].direction = "long" /\ trades[j].direction = "short"
       /\ \A k \in {i, j} :
             /\ trades[k].exit_reason = "sl"
             /\ StopMet(trades[k], ExitBar(trades[k]))
             /\ TakeMet(trades[k], ExitBar(trades[k]))

\* C5: the stop_price of a trade with a trailing distance never decreases
\* (long) / never increases (short) from one step of run to the next; while
\* it has no stop price, the update of a bar sets it to close - distance
\* (long) / close + distance (short), and nothing else gives it one.
C5_TrailingMonotone ==
    [][\A i \in DOMAIN trades \cap DOMAIN trades' :
         LET t == trades[i]
             u == trades'[i]
             candidate == IF t.direction = "long"
                          THEN row'.close - t.trailing_distance.v
                          ELSE row'.close + t.trailing_distance.v
         IN IsNum(t.trailing_distance) =>
              IF IsNum(t.stop_price)
              THEN /\ IsNum(u.stop_price)
                   /\ t.direction = "long" => u.stop_price.v >= t.stop_price.v
                   /\ t.direction = "short" => u.stop_price.v <= t.stop_price.v
              ELSE IF UpdateStep /\ i \in Range(open_trades)
                   THEN u.stop_price = Num(candidate)
                   ELSE u.stop_price = t.stop_price]_vars

\* a long trade whose trailing stop was raised above what it was opened
\* with, and which was then closed at that stop on a bar whose candidate
\* (close - distance) was lower
C5_Witness ==
    \E i \in Refs :
       LET t == trades[i]
       IN /\ t.direction = "long"
          /\ IsNum(t.trailing_distance)
          /\ t.exit_reason = "sl"
          /\ t.stop_price = Num(3)
          /\ EntryBar(t).stop_price = Num(2)
          /\ ExitBar(t).close - t.trailing_distance.v < 3

\* gross profit of a closed trade from its recorded prices, in units of 1/Den
Gross(t) ==
    IF t.direction = "long"
    THEN FMul(Num(t.exit_price.v - t.entry_price), t.size)
    ELSE FMul(Num(t.entry_price - t.exit_price.v), t.size)

\* C6: for every closed trade, pnl = gross - commission_open -
\* commission_close, with gross = (exit_price - entry_price) * size for a
\* long and (entry_price - exit_price) * size for a short, on the recorded
\* prices (gross is scaled by Den to the unit of pnl).
C6_PnlReconciliation ==
    /\ \A k \in DOMAIN closed_trades :
          LET t == trades[closed_trades[k]]
          IN t.pnl = FSub(FSub(FMul(Gross(t), Num(Den)), t.commission_open),
                          t.commission_close)
    /\ \A k \in DOMAIN trades_df :
          LET t == trades_df[k].trade
          IN t.pnl = FSub(FSub(FMul(Gross(t), Num(Den)), t.commission_open),
                          t.commission_close)

\* a closed short trade of size 2 with both commissions charged and a
\* nonzero gross profit
C6_Witness ==
    \E k \in DOMAIN trades_df :
       LET t == trades_df[k].trade
       IN /\ t.direction = "short"
          /\ t.size = Num(2)
          /\ t.commission_open.v > 0
          /\ t.commission_close.v > 0
          /\ t.exit_price.v # t.entry_price

\* C7: a second call of run on the same Backtester, with the same price and
\* signal frames and the same configuration, returns the ledger the first
\* call returned (same trades, same order, same values): nothing the first
\* call left behind changes the result.
C7_Determinism ==
    (run_no = 2 /\ pc = "done") => trades_df = first_df

\* a second call has returned a ledger of two trades or more, one of them
\* closed on its stop or target
C7_Witness ==
    /\ run_no = 2
    /\ pc = "done"
    /\ Len(trades_df) >= 2
    /\ \E k \in DOMAIN trades_df : trades_df[k].trade.exit_reason \in {"sl", "tp"}

\* C8: in single-position mode, when the bar carries a nonzero signal and a
\* trade is still open after the bar's stop/target evaluation, the next step
\* closes it on this bar with exit_reason "signal" at the bar's close (before
\* slippage), and the step after opens exactly one new trade, in the
\* signal's direction, with entry_bar_index this bar.
C8_SignalReversal ==
    [][/\ (pc = "policy" /\ single_position_mode /\ row.signal # 0
                         /\ Len(open_trades) > 0) =>
             /\ pc' = "open"
             /\ bar_index' = bar_index
             /\ open_trades' = <<>>
             /\ \A i \in Range(open_trades) :
                   LET t == trades'[i]
                   IN /\ t.exit_reason = "signal"
                      /\ t.exit_bar_index = Num(bar_index)
                      /\ t.exit_time = Num(row.datetime)
                      /\ t.exit_price = Num(AfterExitSlippage(t.direction, row.close))
                      /\ Occurrences(closed_trades', i) = 1
       /\ pc = "open" =>
             /\ pc' = "loop"
             /\ bar_index' = bar_index
             /\ Len(trades') = Len(trades) + 1
             /\ open_trades' = <<Len(trades')>>
             /\ trades'[Len(trades')].direction =
                   (IF row.signal > 0 THEN "long" ELSE "short")
             /\ trades'[Len(trades')].entry_bar_index = bar_index
             /\ \A i \in Refs : trades'[i] = trades[i]]_vars

\* a long trade opened on an earlier bar was closed "signal" on a bar whose
\* close differs from its low and high, and a short trade was opened on that
\* bar and is the one open trade
C8_Witness ==
    /\ single_position_mode
    /\ pc = "loop"
    /\ Len(open_trades) = 1
    /\ trades[open_trades[1]].direction = "short"
    /\ trades[open_trades[1]].entry_bar_index = bar_index
    /\ \E i \in Refs : /\ trades[i].direction = "long"
                        /\ trades[i].exit_reason = "signal"
                        /\ trades[i].exit_bar_index = Num(bar_index)
                        /\ trades[i].entry_bar_index < bar_index
                        /\ row.low < row.close /\ row.close < row.high

\* every trade closed on its stop or target was closed on a bar after its
\* entry bar, and (its stop price being fixed, without a trailing distance)
\* no bar between the two met its stop or target condition
ClosedOnFirstHit ==
    \A i \in Refs :
       LET t == trades[i]
       IN t.exit_reason \in {"sl", "tp"} =>
            /\ t.exit_bar_index.v > t.entry_bar_index
            /\ IsNone(t.trailing_distance) =>
                  \A j \in (t.entry_bar_index + 1) .. (t.exit_bar_index.v - 1) :
                     ~StopMet(t, data[j + 1]) /\ ~TakeMet(t, data[j + 1])

\* C9: on each bar on which an open trade is updated: if its stop condition
\* is met (with the stop price as it stands on that bar, after the trailing
\* ratchet) it is closed "sl" and its exit price before slippage is that stop
\* price; otherwise if its target condition is met it is closed "tp" at its
\* take price; otherwise it stays open.  So the exit bar is the first bar
\* after entry that meets a condition, and the bar's low, high and close are
\* not the exit price.
C9_ExitAtLevel ==
    [][/\ UpdateStep =>
             \A i \in Range(open_trades) :
                LET t == trades'[i]
                IN /\ StopMet(t, row') =>
                         /\ t.exit_reason = "sl"
                         /\ t.exit_bar_index = Num(bar_index')
                         /\ t.exit_price =
                               Num(AfterExitSlippage(t.direction, t.stop_price.v))
                   /\ (~StopMet(t, row') /\ TakeMet(t, row')) =>
                         /\ t.exit_reason = "tp"
                         /\ t.exit_bar_index = Num(bar_index')
                         /\ t.exit_price =
                               Num(AfterExitSlippage(t.direction, t.take_price.v))
                   /\ (~StopMet(t, row') /\ ~TakeMet(t, row')) =>
                         /\ t.exit_reason = "None"
                         /\ Occurrences(open_trades', i) = 1
       /\ ClosedOnFirstHit']_vars

\* a long trade with stop 2 stayed open on the bar after its entry and was
\* closed "sl" on the next, whose low, close and high all differ from 2; and
\* a trade was closed "tp" on a bar whose high is above its take price
C9_Witness ==
    /\ \E i \in Refs :
          LET t == trades[i]
          IN /\ t.direction = "long"
             /\ t.exit_reason = "sl"
             /\ t.stop_price = Num(2)
             /\ t.exit_bar_index = Num(t.entry_bar_index + 2)
             /\ ExitBar(t).low < 2 /\ ExitBar(t).close > 2
             /\ t.exit_price = Num(AfterExitSlippage("long", 2))
    /\ \E i \in Refs :
          LET t == trades[i]
          IN /\ t.direction = "long"
             /\ t.exit_reason = "tp"
             /\ ExitBar(t).high > t.take_price.v

\* C10: a trade opened on a bar with close p has entry_price p * (1 +
\* slippage) if long and p * (1 - slippage) if short, and commission_open =
\* commission_perc * entry_price * size; with slippage = 0 and
\* commission_perc = 0 its entry price is p and its commission_open is 0.
C10_EntryCost ==
    \A i \in Refs :
       LET t == trades[i]
           p == EntryBar(t).close
       IN /\ t.entry_price = IF t.direction = "long"
                             THEN p * (Den + slippage) ELSE p * (Den - slippage)
          /\ t.commission_open = FMul(Num(commission_perc * t.entry_price), t.size)
          /\ (slippage = 0 /\ commission_perc = 0) =>
                /\ t.entry_price = p * Den
                /\ t.commission_open = Num(0)

\* what does hold of the code: C10 for every trade whose size is a number
C10_EntryCost_NumericSize ==
    \A i \in Refs :
       LET t == trades[i]
           p == EntryBar(t).close
       IN /\ t.entry_price = IF t.direction = "long"
                             THEN p * (Den + slippage) ELSE p * (Den - slippage)
          /\ t.commission_open = FMul(Num(commission_perc * t.entry_price), t.size)
          /\ (slippage = 0 /\ commission_perc = 0 /\ IsNum(t.size)) =>
                /\ t.entry_price = p * Den
                /\ t.commission_open = Num(0)

\* the price a closed trade was closed at, before slippage: its stop price
\* ("sl"), its take price ("tp"), the close of its exit bar ("signal", "eod")
PreSlippageExit(t) ==
    IF t.exit_reason = "sl" THEN t.stop_price.v
    ELSE IF t.exit_reason = "tp" THEN t.take_price.v
    ELSE ExitBar(t).close

\* C11: a trade closed at the pre-slippage price x has exit_price
\* x * (1 - slippage) if long and x * (1 + slippage) if short, which is never
\* better for the trader than x, whatever the exit reason; its
\* commission_close is commission_perc * exit_price * size.
C11_ExitCost ==
    \A i \in Refs :
       LET t == trades[i]
           x == PreSlippageExit(t)
       IN IsClosed(t) =>
            /\ t.exit_reason \in {"sl", "tp", "signal", "eod"}
            /\ t.exit_price = Num(IF t.direction = "long"
                                  THEN x * (Den - slippage) ELSE x * (Den + slippage))
            /\ t.direction = "long" => t.exit_price.v <= x * Den
            /\ t.direction = "short" => t.exit_price.v >= x * Den
            /\ t.commission_close = FMul(Num(commission_perc * t.exit_price.v), t.size)

\* with slippage and commission: a long trade closed on a signal, a short
\* trade closed on its stop and a trade closed by the end-of-data step
C11_Witness ==
    /\ pc = "done"
    /\ slippage > 0 /\ commission_perc > 0
    /\ \E i, j, k \in Refs :
          /\ trades[i].direction = "long" /\ trades[i].exit_reason = "signal"
          /\ trades[j].direction = "short" /\ trades[j].exit_reason = "sl"
          /\ trades[k].exit_reason = "eod"
          /\ trades[j].commission_close.v > 0

\* C12: every trade that is opened has size > 0; when the signals frame has
\* no size column, or the size cell of the row that opens the trade is null,
\* the trade's size is 1.
C12_SizeDefault ==
    \A i \in Refs :
       LET t == trades[i]
       IN /\ IsNum(t.size) /\ t.size.v > 0
          /\ (~has_size \/ isna(EntryBar(t).size)) => t.size = Num(1)

\* what does hold of the code: the size is 1 without a size column, and is
\* the cell's value (null included) with one
C12_SizeFromCell ==
    \A i \in Refs :
       LET t == trades[i]
       IN t.size = IF has_size THEN EntryBar(t).size ELSE Num(1)

\* C13: the trades of a run, in the order they were opened, have the ids
\* 0, 1, 2, ...: ids increase strictly in order of opening, and no two
\* trades, open or closed, share an id; the same holds of the ledger rows.
C13_IdsIncreasing ==
    /\ \A i \in Refs : trades[i].id = i - 1
    /\ \A i, j \in Refs :
          /\ i < j => /\ trades[i].id < trades[j].id
                      /\ trades[i].entry_bar_index <= trades[j].entry_bar_index
          /\ i # j => trades[i].id # trades[j].id
    /\ \A i, j \in DOMAIN trades_df :
          i # j => trades_df[i].trade.id # trades_df[j].trade.id

\* three trades have been opened; one of them is closed and two are open
C13_Witness ==
    /\ Len(trades) = 3
    /\ Len(open_trades) = 2
    /\ Len(closed_trades) = 1
    /\ trades[3].id = 2

\* C14: every closed trade has entry_bar_index <= exit_bar_index, whatever
\* its exit reason and the mode; in the ledger bars_in_trade is
\* exit_bar_index - entry_bar_index and is never negative.
C14_EntryBeforeExit ==
    /\ \A i \in Refs :
          IsClosed(trades[i]) =>
             /\ IsNum(trades[i].exit_bar_index)
             /\ trades[i].entry_bar_index <= trades[i].exit_bar_index.v
    /\ \A k \in DOMAIN trades_df :
          LET t == trades_df[k].trade
          IN /\ trades_df[k].bars_in_trade =
                   Num(t.exit_bar_index.v - t.entry_bar_index)
             /\ trades_df[k].bars_in_trade.v >= 0

\* a ledger with a trade opened on the last bar and closed there by the
\* end-of-data step (0 bars in trade), a trade closed on a signal and a
\* trade closed on its stop or target on a later bar than its entry
C14_Witness ==
    /\ pc = "done"
    /\ \E i, j, k \in DOMAIN trades_df :
          /\ trades_df[i].trade.exit_reason = "eod"
          /\ trades_df[i].bars_in_trade = Num(0)
          /\ trades_df[j].trade.exit_reason = "signal"
          /\ trades_df[k].trade.exit_reason \in {"sl", "tp"}
          /\ trades_df[k].bars_in_trade.v > 0

\* the positions of pc that are an exception
ErrorPcs == {"KeyError", "AttributeError"}
\* no row of data read so far has a nonzero signal (true of an empty frame)
AllSignalsZero == \A k \in DOMAIN data : data[k].signal = 0

\* C15: on a price frame with its columns, run raises no error and returns
\* an empty ledger when the signals frame is empty or None, when it has no
\* signal column, when every signal is zero, and when the merged frame has
\* no row; no trade is ever opened in these cases.
C15_EmptyLedger ==
    (/\ price_columns = PriceColumns
     /\ signals_empty \/ "signal" \notin columns \/ AllSignalsZero) =>
        /\ pc \notin ErrorPcs
        /\ trades = <<>>
        /\ trades_df = <<>>
        /\ pc = "done" => closed_trades = <<>>

\* run has returned after the loop went over two bars or more of a frame
\* that has a signal column, every signal zero
C15_Witness ==
    /\ pc = "done"
    /\ ~signals_empty
    /\ "signal" \in columns
    /\ Len(data) >= 2
    /\ bar_index = Len(data) - 1
    /\ AllSignalsZero
    /\ trades_df = <<>>


\* C16: when the price frame lacks datetime, open, high, low or close, the
\* engine fails and the simulation does not start, whatever the signals
\* frame is: run returns no ledger, no bar is processed and no trade is
\* opened.  (Any exception is taken for the InputError of the claim.)
C16_InputError ==
    price_columns # PriceColumns =>
       /\ pc \in {"start", "loop"} \cup ErrorPcs
       /\ trades = <<>>

\* what does hold of the code: without the datetime column the constructor
\* raises; without one of open, high, low, close run raises on its first
\* row, and returns an empty ledger when there is none or when the signals
\* frame is empty
C16_FailsOnFirstRow ==
    price_columns # PriceColumns =>
       /\ trades = <<>>
       /\ "datetime" \notin price_columns => pc = "KeyError"
       /\ pc = "AttributeError" => Len(data) = 1 /\ ~signals_empty
       /\ pc = "done" => trades_df = <<>> /\ (signals_empty \/ Len(data) = 0)
       /\ pc \in {"start", "loop", "done"} \cup ErrorPcs

\* run has merged the two frames it was given
Merged == frames_given /\ ~signals_empty /\ pc # "start"
PriceTimesOf(frame) == {frame[i].datetime : i \in DOMAIN frame}
Enrichment(r) ==
    <<r.stop_price, r.take_price, r.size, r.risk, r.trailing_distance>>
\* data is the price frame row by row, in its order; a row whose timestamp
\* no signals row has carries signal 0 and null fields; a signals row whose
\* timestamp no price row has gives no row of data and no trade
OneBarPerPriceRow ==
    /\ Len(data) = Len(self_df)
    /\ \A i \in DOMAIN data \cap DOMAIN self_df :
          /\ data[i].datetime = self_df[i].datetime
          /\ <<data[i].low, data[i].close, data[i].high>> =
                <<self_df[i].low, self_df[i].close, self_df[i].high>>
    /\ \A i \in DOMAIN data :
          data[i].datetime \notin PriceTimesOf(sig) =>
             /\ data[i].signal = 0
             /\ Enrichment(data[i]) = <<NaN, NaN, NaN, NaN, NaN>>
    /\ \A j \in DOMAIN sig :
          sig[j].datetime \notin PriceTimesOf(self_df) =>
             /\ sig[j].datetime \notin PriceTimesOf(data)
             /\ \A i \in Refs : trades[i].entry_time # sig[j].datetime

\* C17: the merged frame has one bar for every price timestamp, in the order
\* of the price frame; a price timestamp without a signals row gets signal 0
\* and null enrichment fields; a signals row whose timestamp matches no
\* price bar contributes no bar and opens no trade.
C17_LeftMerge ==
    Merged => OneBarPerPriceRow

\* what does hold of the code: C17 for signals frames in which no two rows
\* have the same timestamp
C17_LeftMerge_DistinctSignalTimes ==
    (Merged /\ \A i, j \in DOMAIN sig : sig[i].datetime = sig[j].datetime => i = j)
       => OneBarPerPriceRow

\* pnl / risk as a float: the pair of the two numbers, null when pnl is
\* not a number
Quotient(pnl, risk) ==
    IF IsNum(pnl) THEN [k |-> "num", n |-> pnl.v, d |-> risk.v] ELSE NoRatio

\* C18: in every row of the ledger, result is "win" when pnl > 0, "loss"
\* when pnl < 0 and "be" when pnl = 0; risk_reward is pnl / risk when the
\* trade has a risk that is not zero, and is null when it has no risk or a
\* risk of zero (and run returns: no exception).
C18_ResultAndRiskReward ==
    /\ pc \in ErrorPcs => price_columns # PriceColumns
    /\ \A k \in DOMAIN trades_df :
          LET r == trades_df[k]
              t == r.trade
          IN /\ r.result \in {"win", "loss", "be"}
             /\ (IsNum(t.pnl) /\ t.pnl.v > 0) => r.result = "win"
             /\ (IsNum(t.pnl) /\ t.pnl.v < 0) => r.result = "loss"
             /\ (IsNum(t.pnl) /\ t.pnl.v = 0) => r.result = "be"
             /\ IF IsNum(t.risk) /\ t.risk.v # 0
                THEN r.risk_reward = Quotient(t.pnl, t.risk)
                ELSE r.risk_reward = NoRatio

\* a ledger with a win, a loss and a trade of pnl 0 whose risk is 0 (a
\* short trade whose stop is its entry price), the first two with a
\* risk_reward
C18_Witness ==
    /\ pc = "done"
    /\ \E i, j, k \in DOMAIN trades_df :
          /\ trades_df[i].result = "win" /\ trades_df[i].risk_reward.k = "num"
          /\ trades_df[j].result = "loss" /\ trades_df[j].risk_reward.k = "num"
          /\ trades_df[k].result = "be"
          /\ trades_df[k].trade.pnl = Num(0)
          /\ trades_df[k].trade.risk = Num(0)
          /\ trades_df[k].risk_reward = NoRatio

\* C19: in hedge mode the policy step of a bar with a nonzero signal closes
\* no trade and opens exactly one, whatever is open: open_trades after it is
\* open_trades after the stop/target evaluation plus the new trade; and no
\* trade ever has exit_reason "signal".
C19_HedgeAdditive ==
    [][/\ (pc = "policy" /\ ~single_position_mode /\ row.signal # 0) =>
             /\ pc' = "loop"
             /\ bar_index' = bar_index
             /\ Len(trades') = Len(trades) + 1
             /\ open_trades' = Append(open_trades, Len(trades'))
             /\ Len(open_trades') = Len(open_trades) + 1
             /\ closed_trades' = closed_trades
             /\ \A i \in Refs : trades'[i] = trades[i]
             /\ trades'[Len(trades')].direction =
                   (IF row.signal > 0 THEN "long" ELSE "short")
             /\ trades'[Len(trades')].entry_bar_index = bar_index
       /\ ~single_position_mode =>
             \A i \in DOMAIN trades' : trades'[i].exit_reason # "signal"]_vars

\* hedge mode, third bar: two trades were open before the bar, its
\* stop/target evaluation closed one, and its signal opened a third next to
\* the one left open
C19_Witness ==
    /\ ~single_position_mode
    /\ pc = "loop"
    /\ bar_index = 2
    /\ row.signal # 0
    /\ Len(trades) = 3
    /\ Len(open_trades) = 2
    /\ trades[open_trades[1]].entry_bar_index < 2
    /\ trades[open_trades[2]].entry_bar_index = 2
    /\ \E i \in Refs : /\ trades[i].exit_reason \in {"sl", "tp"}
                        /\ trades[i].exit_bar_index = Num(2)

\* C20: on a bar whose signal is zero, in both modes: the stop/target
\* evaluation removes from open_trades exactly the trades whose stop or
\* target condition the bar meets (closed "sl" or "tp"), and the policy step
\* opens no trade and closes none, so none is closed with reason "signal".
C20_NoSignalBar ==
    [][/\ (UpdateStep /\ row'.signal = 0) =>
             /\ Len(trades') = Len(trades)
             /\ open_trades' =
                   SelectSeq(open_trades,
                             LAMBDA i : ~StopMet(trades'[i], row') /\ ~TakeMet(trades'[i], row'))
             /\ \A i \in Range(open_trades) \ Range(open_trades') :
                   /\ trades'[i].exit_reason \in {"sl", "tp"}
                   /\ Occurrences(closed_trades', i) = 1
             /\ Len(closed_trades') =
                   Len(closed_trades) + Len(open_trades) - Len(open_trades')
       /\ (pc = "policy" /\ row.signal = 0) =>
             /\ pc' = "loop"
             /\ bar_index' = bar_index
             /\ trades' = trades
             /\ open_trades' = open_trades
             /\ closed_trades' = closed_trades
             /\ trade_id' = trade_id]_vars

\* single-position mode, two bars without a signal after the entry bar: the
\* trade stayed open over the first and was closed on its stop on the
\* second, after which nothing is open
C20_Witness ==
    /\ single_position_mode
    /\ pc = "loop"
    /\ bar_index = 2
    /\ data[2].signal = 0 /\ data[3].signal = 0
    /\ Len(trades) = 1
    /\ trades[1].exit_reason = "sl"
    /\ trades[1].exit_bar_index = Num(2)
    /\ open_trades = <<>>


\* C21: in single-position mode, on a bar with a nonzero signal, a trade
\* whose stop or target condition the bar meets is closed by the stop/target
\* evaluation, "sl" or "tp" at its stop / take price (before slippage), not
\* "signal" at the close; the policy step that follows finds nothing open and
\* opens one trade in the signal's direction on the same bar.
C21_StopBeforeSignal ==
    [][/\ (UpdateStep /\ single_position_mode /\ row'.signal # 0) =>
             \A i \in Range(open_trades) :
                LET t == trades'[i]
                IN (StopMet(t, row') \/ TakeMet(t, row')) =>
                      /\ t.exit_reason = (IF StopMet(t, row') THEN "sl" ELSE "tp")
                      /\ t.exit_bar_index = Num(bar_index')
                      /\ t.exit_price =
                            Num(AfterExitSlippage(t.direction,
                                   IF StopMet(t, row') THEN t.stop_price.v
                                   ELSE t.take_price.v))
                      /\ open_trades' = <<>>
       /\ (pc = "policy" /\ single_position_mode /\ row.signal # 0
                         /\ open_trades = <<>>) =>
             /\ pc' = "loop"
             /\ bar_index' = bar_index
             /\ closed_trades' = closed_trades
             /\ Len(trades') = Len(trades) + 1
             /\ open_trades' = <<Len(trades')>>
             /\ trades'[Len(trades')].direction =
                   (IF row.signal > 0 THEN "long" ELSE "short")
             /\ trades'[Len(trades')].entry_bar_index = bar_index
             /\ \A i \in Refs : trades'[i] = trades[i]]_vars

\* single-position mode: on a bar with a signal whose close is not the take
\* price, a long trade was closed "tp" at its take price and a short trade
\* was opened
C21_Witness ==
    /\ single_position_mode
    /\ pc = "loop"
    /\ bar_index >= 1
    /\ row.signal < 0
    /\ Len(open_trades) = 1
    /\ trades[open_trades[1]].entry_bar_index = bar_index
    /\ trades[open_trades[1]].direction = "short"
    /\ \E i \in Refs :
          /\ trades[i].direction = "long"
          /\ trades[i].exit_reason = "tp"
          /\ trades[i].exit_bar_index = Num(bar_index)
          /\ trades[i].exit_price = Num(AfterExitSlippage("long", trades[i].take_price.v))
          /\ row.close # trades[i].take_price.v


\* C22: on each bar on which an open trade is evaluated, its stop triggers
\* iff it has a stop price and low <= stop (long) / high >= stop (short), and
\* its target triggers iff it has a take price and high >= take (long) /
\* low <= take (short): the trade is closed "sl" iff the stop triggers, "tp"
\* iff the target triggers and the stop does not, and stays open iff neither
\* does; the bar's close is not in the test.  A trade without stop price,
\* take price and trailing distance is only ever closed "signal" or "eod".
C22_HitTest ==
    [][/\ UpdateStep =>
             \A i \in Range(open_trades) :
                LET t == trades'[i]
                    stop_triggers ==
                       /\ IsNum(t.stop_price)
                       /\ IF t.direction = "long" THEN row'.low <= t.stop_price.v
                          ELSE row'.high >= t.stop_price.v
                    target_triggers ==
                       /\ IsNum(t.take_price)
                       /\ IF t.direction = "long" THEN row'.high >= t.take_price.v
                          ELSE row'.low <= t.take_price.v
                IN /\ t.exit_reason = "sl" <=> stop_triggers
                   /\ t.exit_reason = "tp" <=> (target_triggers /\ ~stop_triggers)
                   /\ t.exit_reason = "None" <=> (~stop_triggers /\ ~target_triggers)
                   /\ t.exit_reason \in {"sl", "tp", "None"}
       /\ \A i \in DOMAIN trades' :
             LET t == trades'[i]
             IN (/\ IsClosed(t)
                 /\ IsNone(t.stop_price)
                 /\ IsNone(t.take_price)
                 /\ IsNone(t.trailing_distance)) => t.exit_reason \in {"signal", "eod"}]_vars

\* hedge mode, one bar with close 3: a short trade with stop 4 was closed
\* "sl" (high >= 4 > close) and a short trade without a stop was closed "tp"
\* at its take price 2 (low <= 2 < close)
C22_Witness ==
    \E i, j \in Refs :
       /\ trades[i].direction = "short" /\ trades[j].direction = "short"
       /\ trades[i].exit_reason = "sl" /\ trades[i].stop_price = Num(4)
       /\ trades[j].exit_reason = "tp" /\ trades[j].take_price = Num(2)
       /\ IsNone(trades[j].stop_price)
       /\ trades[i].exit_bar_index = trades[j].exit_bar_index
       /\ ExitBar(trades[i]).close = 3
       /\ ExitBar(trades[i]).high >= 4 /\ ExitBar(trades[i]).low <= 2


\* C23: on a bar, an open trade gets its excursion update, then the trailing
\* update of its stop, then the stop / target test, which reads the stop as
\* the trailing update of this same bar left it: a trade with a trailing
\* distance whose new stop (max / min of its stop and close -/+ distance)
\* the bar's low / high reaches is closed "sl" at that new stop on this bar,
\* with its excursions updated on this bar too.
C23_RatchetThenTest ==
    [][UpdateStep =>
         \A i \in Range(open_trades) :
            LET t == trades[i]
                u == trades'[i]
                long == t.direction = "long"
                candidate == IF long THEN row'.close - t.trailing_distance.v
                             ELSE row'.close + t.trailing_distance.v
                ratcheted ==
                   IF ~IsNum(t.stop_price) THEN candidate
                   ELSE IF long
                        THEN (IF t.stop_price.v >= candidate THEN t.stop_price.v ELSE candidate)
                        ELSE (IF t.stop_price.v <= candidate THEN t.stop_price.v ELSE candidate)
                reached == IF long THEN row'.low <= ratcheted ELSE row'.high >= ratcheted
                best == IF long THEN (row'.high * Den - t.entry_price) * t.size.v
                        ELSE (t.entry_price - row'.low * Den) * t.size.v
                worst == IF long THEN (row'.low * Den - t.entry_price) * t.size.v
                         ELSE (t.entry_price - row'.high * Den) * t.size.v
            IN IsNum(t.trailing_distance) =>
                  /\ u.stop_price = Num(ratcheted)
                  /\ IF reached
                     THEN /\ u.exit_reason = "sl"
                          /\ u.exit_bar_index = Num(bar_index')
                          /\ u.exit_price = Num(AfterExitSlippage(t.direction, ratcheted))
                     ELSE u.exit_reason # "sl"
                  /\ IsNum(t.size) => u.max_favor >= best /\ u.max_adverse <= worst]_vars

\* a long trade opened without a stop price got its first stop, close -
\* distance, on the bar after its entry and was closed "sl" at it on that
\* bar, whose low is below it
C23_Witness ==
    \E i \in Refs :
       LET t == trades[i]
       IN /\ t.direction = "long"
          /\ IsNum(t.trailing_distance)
          /\ isna(EntryBar(t).stop_price)
          /\ t.exit_reason = "sl"
          /\ t.exit_bar_index = Num(t.entry_bar_index + 1)
          /\ t.stop_price = Num(ExitBar(t).close - t.trailing_distance.v)
          /\ ExitBar(t).low < t.stop_price.v
          /\ t.exit_price = Num(AfterExitSlippage("long", t.stop_price.v))


\* C24: a trade opened without a supplied risk (no risk column, or a null
\* risk cell) and with a stop price has risk = |entry_price - stop_price| *
\* size, entry_price being its execution price after slippage (in units of
\* 1/Den, so both sides are scaled by Den); without risk and stop price its
\* risk stays absent; a supplied risk is stored unchanged.
C24_RiskInference ==
    \A i \in Refs :
       LET t == trades[i]
           e == EntryBar(t)
           supplied == has_risk /\ ~isna(e.risk)
           with_stop == has_stop /\ ~isna(e.stop_price)
       IN IF supplied THEN t.risk = e.risk
          ELSE IF with_stop
               THEN /\ IsNum(t.risk)
                    /\ IsNum(t.size)
                    /\ t.risk.v * Den =
                          Abs(t.entry_price - e.stop_price.v * Den) * t.size.v
               ELSE IsNone(t.risk)

\* what does hold of the code: the inferred risk is |price - stop_price| *
\* size with price the bar's close, before slippage
C24_RiskFromSignalPrice ==
    \A i \in Refs :
       LET t == trades[i]
           e == EntryBar(t)
           supplied == has_risk /\ ~isna(e.risk)
           with_stop == has_stop /\ ~isna(e.stop_price)
       IN IF supplied THEN t.risk = e.risk
          ELSE IF with_stop
               THEN t.risk = FMul(Num(Abs(e.close - e.stop_price.v)), t.size)
               ELSE IsNone(t.risk)


\* the best and worst excursion of a trade (of numeric size) on a bar, in
\* the unit of max_favor
BestExcursion(t, r) ==
    IF t.direction = "long" THEN (r.high * Den - t.entry_price) * t.size.v
    ELSE (t.entry_price - r.low * Den) * t.size.v
WorstExcursion(t, r) ==
    IF t.direction = "long" THEN (r.low * Den - t.entry_price) * t.size.v
    ELSE (t.entry_price - r.high * Den) * t.size.v
\* the bars a trade has been evaluated on: those after its entry bar, up to
\* its exit bar or (still open) the current bar
EvaluatedBars(t) ==
    (t.entry_bar_index + 1) ..
       (IF IsClosed(t) THEN t.exit_bar_index.v ELSE bar_index)
\* the extrema of every trade cover every bar it was evaluated on, the bar
\* of its closure included, and are 0 or the excursion of one of them
ExtremaCoverLife ==
    \A i \in Refs :
       LET t == trades[i]
       IN (IsNum(t.size) /\ pc \notin {"start"} \cup ErrorPcs) =>
             /\ \A j \in EvaluatedBars(t) :
                   /\ t.max_favor >= BestExcursion(t, data[j + 1])
                   /\ t.max_adverse <= WorstExcursion(t, data[j + 1])
             /\ \/ t.max_favor = 0
                \/ \E j \in EvaluatedBars(t) : t.max_favor = BestExcursion(t, data[j + 1])
             /\ \/ t.max_adverse = 0
                \/ \E j \in EvaluatedBars(t) : t.max_adverse = WorstExcursion(t, data[j + 1])

\* C25: on every bar on which an open trade is evaluated, max_favor becomes
\* max(max_favor, best) and max_adverse becomes min(max_adverse, worst),
\* best / worst being (high - entry) * size / (low - entry) * size for a long
\* and (entry - low) * size / (entry - high) * size for a short; in no step
\* does max_favor decrease or max_adverse increase; and the bar on which a
\* trade is closed (sl, tp, signal or eod) is among the bars its extrema
\* cover.
C25_RunningExtrema ==
    [][/\ UpdateStep =>
             \A i \in Range(open_trades) :
                LET t == trades[i]
                    u == trades'[i]
                    best == BestExcursion(t, row')
                    worst == WorstExcursion(t, row')
                IN IsNum(t.size) =>
                      /\ u.max_favor = IF best > t.max_favor THEN best ELSE t.max_favor
                      /\ u.max_adverse = IF worst < t.max_adverse THEN worst ELSE t.max_adverse
       /\ \A i \in DOMAIN trades \cap DOMAIN trades' :
             /\ trades'[i].max_favor >= trades[i].max_favor
             /\ trades'[i].max_adverse <= trades[i].max_adverse
       /\ ExtremaCoverLife']_vars

\* a long trade was closed on a signal or by the end-of-data step two bars
\* after its entry; its max_favor and max_adverse are the excursions of its
\* exit bar, beyond those of the bar before
C25_Witness ==
    \E i \in Refs :
       LET t == trades[i]
       IN /\ t.direction = "long"
          /\ IsNum(t.size)
          /\ t.exit_reason \in {"signal", "eod"}
          /\ t.exit_bar_index = Num(t.entry_bar_index + 2)
          /\ t.max_favor = BestExcursion(t, ExitBar(t))
          /\ t.max_favor > BestExcursion(t, data[t.entry_bar_index + 2])
          /\ BestExcursion(t, data[t.entry_bar_index + 2]) > 0
          /\ t.max_adverse = WorstExcursion(t, ExitBar(t))
          /\ t.max_adverse < 0


\* the fields of a trade that are set at its open
OpenFields(t) ==
    <<t.id, t.direction, t.size, t.entry_price, t.entry_time, t.entry_bar_index,
      t.trailing_distance, t.risk, t.commission_open, t.take_price>>

\* C26: no step of run changes the id, direction, size, entry_price,
\* entry_time, entry_bar_index, trailing_distance, risk, commission_open or
\* take_price of a trade that is open (the step that closes it included);
\* its stop_price changes only in the update of a bar and only if it has a
\* trailing distance, so a trade without one has the stop price of the
\* signal row it was opened from for as long as it is open and after.
C26_OpenTradeFrame ==
    [][/\ \A i \in DOMAIN trades \cap DOMAIN trades' :
             LET t == trades[i]
                 u == trades'[i]
             IN ~IsClosed(t) =>
                   /\ OpenFields(u) = OpenFields(t)
                   /\ u.stop_price # t.stop_price =>
                         /\ UpdateStep
                         /\ i \in Range(open_trades)
                         /\ IsNum(t.trailing_distance)
       /\ \A i \in DOMAIN trades' :
             LET u == trades'[i]
                 cell == data'[u.entry_bar_index + 1].stop_price
             IN IsNone(u.trailing_distance) =>
                   u.stop_price = IF has_stop /\ IsNum(cell) THEN cell ELSE None]_vars

\* a short trade with stop price 4 and no trailing distance has been
\* evaluated on two bars (its max_favor has moved) and is still open with
\* stop price 4
C26_Witness ==
    /\ pc = "loop"
    /\ \E k \in DOMAIN open_trades :
          LET t == trades[open_trades[k]]
          IN /\ t.entry_bar_index = bar_index - 2
             /\ IsNone(t.trailing_distance)
             /\ t.direction = "short"
             /\ t.stop_price = Num(4)
             /\ IsNum(t.take_price)
             /\ t.max_favor > 0


\* the bars among the first n of data that carry a nonzero signal
SignalBars(n) == {k \in 1 .. n : data[k].signal # 0}

\* C27: in both modes every bar with a nonzero signal opens exactly one
\* trade and no other bar opens any: after each bar the trades opened so far
\* are one per bar with a nonzero signal among the bars processed, and the
\* ledger run returns has as many rows as data has bars with a nonzero
\* signal, with the ids 0 .. n-1.
C27_OneTradePerSignalBar ==
    /\ pc = "loop" =>
          /\ Len(trades) = Cardinality(SignalBars(bar_index + 1))
          /\ \A k \in 1 .. (bar_index + 1) :
                Cardinality({i \in Refs : trades[i].entry_bar_index = k - 1}) =
                   IF data[k].signal # 0 THEN 1 ELSE 0
    /\ pc = "done" =>
          /\ Len(trades_df) = Cardinality(SignalBars(Len(data)))
          /\ {trades_df[k].trade.id : k \in DOMAIN trades_df} =
                0 .. (Len(trades_df) - 1)

\* single-position mode, three bars: the second bar's signal reversed the
\* trade of the first and the third bar has no signal; the ledger has two
\* rows
C27_Witness ==
    /\ single_position_mode
    /\ pc = "done"
    /\ Len(data) = 3
    /\ data[1].signal > 0 /\ data[2].signal < 0 /\ data[3].signal = 0
    /\ Len(trades_df) = 2
    /\ trades_df[1].trade.exit_reason = "signal"


\* C28: a trade opened on bar i gets no excursion update, trailing update
\* or stop / target test on bar i: while bar i is the current bar it is open
\* (or closed "eod") with max_favor = max_adverse = 0 and the stop price of
\* its signal row, whatever the bar's high and low.  Every trade closed
\* "sl", "tp" or "signal" has exit_bar_index > entry_bar_index, and a trade
\* with exit_bar_index = entry_bar_index was opened on the last bar and
\* closed "eod".
C28_NoEvaluationOnEntryBar ==
    \A i \in Refs :
       LET t == trades[i]
           cell == EntryBar(t).stop_price
       IN /\ t.entry_bar_index = bar_index =>
                /\ t.max_favor = 0
                /\ t.max_adverse = 0
                /\ t.stop_price = (IF has_stop /\ IsNum(cell) THEN cell ELSE None)
                /\ t.exit_reason \in {"None", "eod"}
          /\ t.exit_reason \in {"sl", "tp", "signal"} =>
                t.exit_bar_index.v > t.entry_bar_index
          /\ (IsClosed(t) /\ t.exit_bar_index.v <= t.entry_bar_index) =>
                /\ t.exit_reason = "eod"
                /\ t.exit_bar_index.v = t.entry_bar_index
                /\ t.entry_bar_index = Len(data) - 1

\* a long trade with stop price 2 and take price 4 was opened on the last
\* bar, whose low is below 2 and whose high is above 4, and was closed "eod"
\* on it with no excursion recorded; an earlier trade was closed on its stop
\* or target
C28_Witness ==
    /\ pc = "done"
    /\ \E i, j \in Refs :
          LET t == trades[i]
          IN /\ t.direction = "long"
             /\ t.stop_price = Num(2) /\ t.take_price = Num(4)
             /\ EntryBar(t).low < 2 /\ EntryBar(t).high > 4
             /\ t.exit_reason = "eod"
             /\ t.exit_bar_index = Num(t.entry_bar_index)
             /\ t.max_favor = 0 /\ t.max_adverse = 0
             /\ trades[j].exit_reason \in {"sl", "tp"}


\* C29: every trade, open or closed, and every row of the ledger has
\* max_favor >= 0 and max_adverse <= 0 at all times; a trade whose best
\* excursion was negative on every bar has max_favor = 0.
C29_ExtremaSigns ==
    /\ \A i \in Refs : trades[i].max_favor >= 0 /\ trades[i].max_adverse <= 0
    /\ \A k \in DOMAIN trades_df :
          /\ trades_df[k].trade.max_favor >= 0
          /\ trades_df[k].trade.max_adverse <= 0

\* a closed long trade was evaluated on a bar or more, each with its high
\* below the entry price: its max_favor is 0 and its max_adverse negative
C29_Witness ==
    \E i \in Refs :
       LET t == trades[i]
       IN /\ IsClosed(t)
          /\ t.direction = "long"
          /\ IsNum(t.size)
          /\ t.exit_bar_index.v > t.entry_bar_index
          /\ \A j \in (t.entry_bar_index + 1) .. t.exit_bar_index.v :
                data[j + 1].high * Den < t.entry_price
          /\ t.max_favor = 0
          /\ t.max_adverse < 0


\* the fields of a trade that are set at its close
ExitFields(t) ==
    <<t.exit_time, t.exit_bar_index, t.exit_price, t.pnl, t.exit_reason>>

\* C30: no step of run changes any field of a trade that is closed; the step
\* that closes a trade takes it out of open_trades (the end-of-data step,
\* after which run returns, leaves the list as it is) and no step puts it
\* back, and closed_trades only grows at its end; a trade in open_trades,
\* while run is in the loop, has exit_time, exit_bar_index, exit_price and
\* pnl None and no exit_reason.
C30_ClosedTradeFrame ==
    [][/\ \A i \in DOMAIN trades \cap DOMAIN trades' :
             /\ IsClosed(trades[i]) =>
                   /\ trades'[i] = trades[i]
                   /\ pc # "loop" \/ pc' # "done" => i \notin Range(open_trades')
             /\ (~IsClosed(trades[i]) /\ IsClosed(trades'[i])) =>
                   /\ pc' = "done" \/ i \notin Range(open_trades')
                   /\ Occurrences(closed_trades', i) = 1
       /\ Len(closed_trades') >= Len(closed_trades)
       /\ SubSeq(closed_trades', 1, Len(closed_trades)) = closed_trades
       /\ pc' # "done" =>
             \A k \in DOMAIN open_trades' :
                ExitFields(trades'[open_trades'[k]]) = <<None, None, None, None, "None">>]_vars

\* a long trade was closed on its target on one bar, and the next bar, on
\* which another trade was evaluated, has a high that would have raised its
\* max_favor
C30_Witness ==
    /\ pc = "loop"
    /\ bar_index >= 2
    /\ \E i, j \in Refs :
          LET t == trades[i]
          IN /\ t.direction = "long"
             /\ IsNum(t.size)
             /\ t.exit_reason = "tp"
             /\ t.exit_bar_index = Num(bar_index - 1)
             /\ t.max_favor < BestExcursion(t, row)
             /\ trades[j].entry_bar_index = bar_index - 1
             /\ trades[j].max_favor + trades[j].max_adverse # 0

====
